---- MODULE Spec2Model ----
(***************************************************************************)
(* Model of the sso-grpc authentication service: the gRPC gateway          *)
(* (internal/grpc/auth/server.go), the authentication core                 *)
(* (internal/services/auth/auth.go), the SQLite credential store           *)
(* (internal/storage/sqlite/sqlite.go) and the token issuer (lib/jwt).     *)
(*                                                                         *)
(* Requests are served concurrently by gRPC, one goroutine per request.    *)
(* A handler is modelled as a record with a program counter; the atomic    *)
(* steps are the store calls (each a single SQL statement) together with   *)
(* the local computation that follows them.                                *)
(***************************************************************************)
EXTENDS Integers, Sequences, FiniteSets, TLC

(* ------------------------------ bounds --------------------------------- *)

\* Salts bcrypt may draw: 1..MaxSalt.
MaxSalt == 1
\* Instants time.Now() may return, in ticks: 0..MaxNow.
MaxNow == 1
\* Largest configured token lifetime, in ticks.
MaxTTL == 2
\* Clock ticks per Unix second (time.Duration is finer than one second).
TicksPerSec == 2

\* Goroutines serving requests at the same time.
Handlers == {"h1", "h2"}
Emails == {"", "a@x", "b@x"}
Passwords == {"", "pw1", "pw2"}
\* 0 is the protobuf zero value; 1 and 2 are provisioned; 3 is not.
AppIDs == {0, 1, 2, 3}
\* -1 is negative, 0 the zero value; at most two users can exist (two emails).
UserIDs == {0 - 1, 0, 1, 2, 3}
\* Lifetimes the configuration accepts: any time.Duration, also <= 0.
TTLs == (0 - 1)..MaxTTL

VARIABLES
    users,      \* rows of table users, in insertion order
    apps,       \* rows of table apps, keyed by id
    tokenTTL,   \* Auth.tokenTTL, from the configuration
    h,          \* the in-flight handlers
    registered  \* what the successful Register calls answered so far

vars == <<users, apps, tokenTTL, h, registered>>

(* ------------------------------ errors --------------------------------- *)

\* A Go error: the sentinel at the end of its %w chain and the op names
\* wrapped around it.  nil is NoErr.
NoErr == [is |-> "nil", ops |-> <<>>]

Sentinel(s) == [is |-> s, ops |-> <<>>]

\* fmt.Errorf("%s: %w", op, err)
Wrap(op, err) == [is |-> err.is, ops |-> <<op>> \o err.ops]

\* errors.Is(err, target) for a sentinel target
Is(err, target) == err.is = target

(* ------------------------------ values --------------------------------- *)

Salts == 1..MaxSalt
Instants == 0..MaxNow

\* A bcrypt hash: the salt it was generated with and the digest of the salted
\* password.  The digest is collision free: it is determined by, and
\* determines, the pair (salt, password).
NoHash == [salt |-> 0, digest |-> <<0, "">>]

BcryptDigest(salt, password) == <<salt, password>>

GenerateFromPassword(password, salt) ==
    [salt |-> salt, digest |-> BcryptDigest(salt, password)]

\* A comparison that accepts every password.
CompareHashAndPasswordAny(hash, password) == NoErr

\* nil when the password hashes, under the hash's own salt, to the hash
CompareHashAndPassword(hash, password) ==
    IF hash.digest = BcryptDigest(hash.salt, password)
    THEN NoErr
    ELSE Sentinel("bcrypt.ErrMismatchedHashAndPassword")

NoUser == [id |-> 0, email |-> "", pass_hash |-> NoHash, is_admin |-> FALSE]
NoApp == [id |-> 0, name |-> "", secret |-> ""]

\* A signed token: its claims and the HMAC key it was signed with.
NoToken == [user_id |-> 0, app_id |-> 0, email |-> "", exp |-> 0, key |-> ""]

\* time.Time.Unix(): whole seconds, rounded down
Unix(t) == t \div TicksPerSec

\* NewToken signing every token with one service-wide secret.
NewTokenSharedKey(user, app, duration, now) ==
    [user_id |-> user.id,
     app_id  |-> app.id,
     email   |-> user.email,
     exp     |-> Unix(now + duration),
     key     |-> "secret1"]

NewToken(user, app, duration, now) ==
    [user_id |-> user.id,
     app_id  |-> app.id,
     email   |-> user.email,
     exp     |-> Unix(now + duration),
     key     |-> app.secret]

\* What a relying party does with its own copy of the secret (jwt.Parse).
Verifies(token, secret) == token.key = secret

(* ------------------------------- store --------------------------------- *)

RowsByEmail(us, email) == {i \in 1..Len(us) : us[i].email = email}
RowsByID(us, id) == {i \in 1..Len(us) : us[i].id = id}

\* The value column is_admin takes in a row inserted without it.
IsAdminDefault == FALSE

\* SaveUser returning the last id of the table as it was before the insert.
SaveUserStaleID(us, ctxDone, email, passHash) ==
    IF ctxDone
    THEN [users |-> us, id |-> 0,
          err |-> Wrap("storage.sqlite.SaveUser", Sentinel("context.Canceled"))]
    ELSE IF RowsByEmail(us, email) # {}
    THEN [users |-> us, id |-> 0,
          err |-> Wrap("storage.sqlite.SaveUser", Sentinel("storage.ErrUserExists"))]
    ELSE [users |-> Append(us, [id |-> Len(us) + 1, email |-> email,
                                pass_hash |-> passHash,
                                is_admin |-> IsAdminDefault]),
          id |-> Len(us),
          err |-> NoErr]

\* SaveUser whose insert goes through although the context is cancelled and
\* the call reports the cancellation.
SaveUserWritesOnCancel(us, ctxDone, email, passHash) ==
    IF RowsByEmail(us, email) # {}
    THEN [users |-> us, id |-> 0,
          err |-> Wrap("storage.sqlite.SaveUser", Sentinel("storage.ErrUserExists"))]
    ELSE [users |-> Append(us, [id |-> Len(us) + 1, email |-> email,
                                pass_hash |-> passHash,
                                is_admin |-> IsAdminDefault]),
          id |-> IF ctxDone THEN 0 ELSE Len(us) + 1,
          err |-> IF ctxDone
                  THEN Wrap("storage.sqlite.SaveUser", Sentinel("context.Canceled"))
                  ELSE NoErr]

\* SaveUser on a table whose email column accepts duplicates.
SaveUserNoUnique(us, ctxDone, email, passHash) ==
    IF ctxDone
    THEN [users |-> us, id |-> 0,
          err |-> Wrap("storage.sqlite.SaveUser", Sentinel("context.Canceled"))]
    ELSE [users |-> Append(us, [id |-> Len(us) + 1, email |-> email,
                                pass_hash |-> passHash,
                                is_admin |-> IsAdminDefault]),
          id |-> Len(us) + 1,
          err |-> NoErr]

\* INSERT INTO users (email, pass_hash): email is UNIQUE, id is the rowid,
\* is_admin takes its default.
SaveUser(us, ctxDone, email, passHash) ==
    IF ctxDone
    THEN [users |-> us, id |-> 0,
          err |-> Wrap("storage.sqlite.SaveUser", Sentinel("context.Canceled"))]
    ELSE IF RowsByEmail(us, email) # {}
    THEN [users |-> us, id |-> 0,
          err |-> Wrap("storage.sqlite.SaveUser", Sentinel("storage.ErrUserExists"))]
    ELSE [users |-> Append(us, [id |-> Len(us) + 1, email |-> email,
                                pass_hash |-> passHash,
                                is_admin |-> IsAdminDefault]),
          id |-> Len(us) + 1,
          err |-> NoErr]

\* SELECT id, email, pass_hash FROM users WHERE email = ?
User(us, ctxDone, email) ==
    IF ctxDone
    THEN [user |-> NoUser,
          err |-> Wrap("storage.sqlite.User", Sentinel("context.Canceled"))]
    ELSE IF RowsByEmail(us, email) = {}
    THEN [user |-> NoUser,
          err |-> Wrap("storage.sqlite.User", Sentinel("storage.ErrUserNotFound"))]
    ELSE [user |-> us[CHOOSE i \in RowsByEmail(us, email) : TRUE], err |-> NoErr]

\* Storage.IsAdmin reporting every stored user as an administrator.
StorageIsAdminAlways(us, ctxDone, userID) ==
    IF ctxDone
    THEN [isAdmin |-> FALSE,
          err |-> Wrap("storage.sqlite.IsAdmin", Sentinel("context.Canceled"))]
    ELSE IF RowsByID(us, userID) = {}
    THEN [isAdmin |-> FALSE,
          err |-> Wrap("storage.sqlite.IsAdmin", Sentinel("storage.ErrUserNotFound"))]
    ELSE [isAdmin |-> TRUE, err |-> NoErr]

\* SELECT is_admin FROM users WHERE id = ?
StorageIsAdmin(us, ctxDone, userID) ==
    IF ctxDone
    THEN [isAdmin |-> FALSE,
          err |-> Wrap("storage.sqlite.IsAdmin", Sentinel("context.Canceled"))]
    ELSE IF RowsByID(us, userID) = {}
    THEN [isAdmin |-> FALSE,
          err |-> Wrap("storage.sqlite.IsAdmin", Sentinel("storage.ErrUserNotFound"))]
    ELSE [isAdmin |-> us[CHOOSE i \in RowsByID(us, userID) : TRUE].is_admin,
          err |-> NoErr]

\* SELECT id, name, secret FROM apps WHERE id = ?
App(ap, ctxDone, appID) ==
    IF ctxDone
    THEN [app |-> NoApp,
          err |-> Wrap("storage.sqlite.App", Sentinel("context.Canceled"))]
    ELSE IF appID \notin DOMAIN ap
    THEN [app |-> NoApp,
          err |-> Wrap("storage.sqlite.App", Sentinel("storage.ErrAppNotFound"))]
    ELSE [app |-> ap[appID], err |-> NoErr]

(* ------------------------------ gateway -------------------------------- *)

Status(code, msg) == [code |-> code, msg |-> msg]
OK == Status("OK", "")

\* validateRegisterRequest checking the password before the email.
validateRegisterRequestPasswordFirst(email, password) ==
    IF password = "" THEN Status("InvalidArgument", "password is required")
    ELSE IF email = "" THEN Status("InvalidArgument", "email is required")
    ELSE OK

validateRegisterRequest(email, password) ==
    IF email = "" THEN Status("InvalidArgument", "email is required")
    ELSE IF password = "" THEN Status("InvalidArgument", "password is required")
    ELSE OK

emptyValue == 0

\* validateLoginRequest without the password check.
validateLoginRequestNoPassword(email, password, appID) ==
    IF email = "" THEN Status("InvalidArgument", "email is required")
    ELSE IF appID = emptyValue THEN Status("InvalidArgument", "app_id is required")
    ELSE OK

validateLoginRequest(email, password, appID) ==
    IF email = "" THEN Status("InvalidArgument", "email is required")
    ELSE IF password = "" THEN Status("InvalidArgument", "password is required")
    ELSE IF appID = emptyValue THEN Status("InvalidArgument", "app_id is required")
    ELSE OK

validateIsAdminRequest(userID) ==
    IF userID = emptyValue THEN Status("InvalidArgument", "user_id is required")
    ELSE IF userID < 0 THEN Status("InvalidArgument", "invalid user_id")
    ELSE OK

\* server.Register answering an unexpected failure with the error's own text.
RegisterStatusLeaky(err) ==
    IF err = NoErr THEN OK
    ELSE IF Is(err, "auth.ErrUserExists")
    THEN Status("AlreadyExists", "user already exists")
    ELSE Status("Internal", err.is)

\* server.Register: the status for the core's error
RegisterStatus(err) ==
    IF err = NoErr THEN OK
    ELSE IF Is(err, "auth.ErrUserExists")
    THEN Status("AlreadyExists", "user already exists")
    ELSE Status("Internal", "internal error")

\* server.Login: the status for the core's error
LoginStatus(err) ==
    IF err = NoErr THEN OK
    ELSE IF Is(err, "auth.ErrInvalidCredentials")
    THEN Status("InvalidArgument", "invalid credentials")
    ELSE IF Is(err, "auth.ErrInvalidAppID")
    THEN Status("InvalidArgument", "invalid app ID")
    ELSE Status("Internal", "internal error")

\* server.IsAdmin: the status for the core's error.  The sentinel it looks
\* for belongs to the core's package, which never returns it.
IsAdminStatus(err) ==
    IF err = NoErr THEN OK
    ELSE IF Is(err, "auth.ErrUserNotFound")
    THEN Status("NotFound", "user not found")
    ELSE Status("Internal", "internal error")

(* ------------------------------- core ---------------------------------- *)

\* Auth.Register passing the store's duplicate error through unmapped.
RegisterErrUnmapped(err) == Wrap("auth.Auth.Register", err)

\* Auth.Register: the error returned for a failed SaveUser
RegisterErr(err) ==
    IF Is(err, "storage.ErrUserExists")
    THEN Wrap("auth.Auth.Register", Sentinel("auth.ErrUserExists"))
    ELSE Wrap("auth.Auth.Register", err)

\* Auth.Login passing the store's not-found error through unmapped.
LoginUserErrUnmapped(err) == Wrap("auth.Auth.Login", err)

\* Auth.Login: the error returned for a failed storage.User
LoginUserErr(err) ==
    IF Is(err, "storage.ErrUserNotFound")
    THEN Wrap("auth.Auth.Login", Sentinel("auth.ErrInvalidCredentials"))
    ELSE Wrap("auth.Auth.Login", err)

\* Auth.Login: the error returned for a failed password comparison
LoginCompareErr(err) ==
    Wrap("auth.Auth.Login", Sentinel("auth.ErrInvalidCredentials"))

\* Auth.Login reporting an unknown application as ErrInvalidAppID.
LoginAppErrInvalidAppID(err) ==
    IF Is(err, "storage.ErrAppNotFound")
    THEN Wrap("auth.Auth.Login", Sentinel("auth.ErrInvalidAppID"))
    ELSE Wrap("auth.Auth.Login", err)

\* Auth.Login: the error returned for a failed storage.App
LoginAppErr(err) ==
    IF Is(err, "storage.ErrAppNotFound")
    THEN Wrap("auth.Auth.Login", Sentinel("auth.ErrInvalidCredentials"))
    ELSE Wrap("auth.Auth.Login", err)

\* Auth.IsAdmin: the error returned for a failed storage.IsAdmin
IsAdminErr(err) ==
    IF Is(err, "storage.ErrAppNotFound")
    THEN Wrap("auth.Auth.IsAdmin", Sentinel("auth.ErrInvalidAppID"))
    ELSE Wrap("auth.Auth.IsAdmin", err)

(* ------------------------------ handlers ------------------------------- *)

\* A handler that serves no request.
Idle ==
    [pc       |-> "idle",     \* idle, SaveUser, User, App, IsAdmin, done
     op       |-> "",         \* Register, Login, IsAdmin
     email    |-> "",         \* request fields
     password |-> "",
     app_id   |-> 0,
     user_id  |-> 0,
     ctxDone  |-> FALSE,      \* the caller's context is cancelled or past its deadline
     passHash |-> NoHash,     \* Register: the generated hash
     user     |-> NoUser,     \* Login: the row storage.User returned
     now      |-> 0,          \* Login: the instant NewToken read the clock
     called   |-> <<>>,       \* the core, store and library calls made so far
     log      |-> <<>>,       \* the levels of the log events emitted
     err      |-> NoErr,      \* what the core returned
     userID   |-> 0,
     token    |-> NoToken,
     isAdmin  |-> FALSE,
     status   |-> OK]         \* what the gateway answers

\* The gateway's answer to a request that failed validation.
Rejected(op, email, password, appID, userID, st) ==
    [Idle EXCEPT !.pc = "done", !.op = op, !.email = email,
                 !.password = password, !.app_id = appID, !.user_id = userID,
                 !.status = st]

\* A request that passed validation and entered the core.
Accepted(op, email, password, appID, userID, pc) ==
    [Idle EXCEPT !.pc = pc, !.op = op, !.email = email,
                 !.password = password, !.app_id = appID, !.user_id = userID]

\* The core returned err: the gateway answers with status st.
Failed(r, calls, level, err, st) ==
    [r EXCEPT !.pc = "done", !.called = r.called \o calls,
              !.log = Append(r.log, level), !.err = err, !.status = st]

Init ==
    /\ users = <<>>
    /\ apps = [i \in {1, 2} |->
                 [id |-> i,
                  name |-> IF i = 1 THEN "app1" ELSE "app2",
                  secret |-> IF i = 1 THEN "secret1" ELSE "secret2"]]
    /\ tokenTTL \in TTLs
    /\ h = [p \in Handlers |-> Idle]
    /\ registered = {}

\* server.Register up to the core's store call: validation, then
\* Auth.Register hashes the password.  The caller's context may be cancelled
\* already when the request arrives; neither the validation nor the hashing
\* reads it.
ServerRegister(p) ==
    /\ h[p].pc = "idle"
    /\ \E email \in Emails, password \in Passwords, salt \in Salts,
          ctxDone \in BOOLEAN :
         LET st == validateRegisterRequest(email, password) IN
         h' = [h EXCEPT ![p] =
                 IF st # OK
                 THEN Rejected("Register", email, password, 0, 0, st)
                 ELSE [Accepted("Register", email, password, 0, 0, "SaveUser")
                         EXCEPT !.ctxDone = ctxDone,
                                !.passHash = GenerateFromPassword(password, salt),
                                !.called = <<"auth.Register",
                                             "bcrypt.GenerateFromPassword">>]]
    /\ UNCHANGED <<users, apps, tokenTTL, registered>>

\* Auth.Register from the store call on, and server.Register's answer.
RegisterSaveUser(p) ==
    /\ h[p].pc = "SaveUser"
    /\ LET r == h[p]
             saved == SaveUser(users, r.ctxDone, r.email, r.passHash)
             err == RegisterErr(saved.err)
         IN
         /\ users' = saved.users
         /\ h' = [h EXCEPT ![p] =
                    IF saved.err # NoErr
                    THEN Failed(r, <<"storage.SaveUser">>,
                                IF Is(saved.err, "storage.ErrUserExists")
                                THEN "WARN" ELSE "ERROR",
                                err, RegisterStatus(err))
                    ELSE [r EXCEPT !.pc = "done",
                                   !.called = r.called \o <<"storage.SaveUser">>,
                                   !.log = Append(r.log, "INFO"),
                                   !.userID = saved.id,
                                   !.status = RegisterStatus(NoErr)]]
         /\ registered' =
              IF h'[p].status # OK
              THEN registered
              ELSE registered \cup {[email |-> r.email, password |-> r.password,
                                     id |-> h'[p].userID]}
    /\ UNCHANGED <<apps, tokenTTL>>

\* server.Login up to the core's first store call: validation only.
ServerLogin(p) ==
    /\ h[p].pc = "idle"
    /\ \E email \in Emails, password \in Passwords, appID \in AppIDs :
         LET st == validateLoginRequest(email, password, appID) IN
         h' = [h EXCEPT ![p] =
                 IF st # OK
                 THEN Rejected("Login", email, password, appID, 0, st)
                 ELSE [Accepted("Login", email, password, appID, 0, "User")
                         EXCEPT !.called = <<"auth.Login">>]]
    /\ UNCHANGED <<users, apps, tokenTTL, registered>>

\* Auth.Login: the user lookup and the password comparison.
LoginUser(p) ==
    /\ h[p].pc = "User"
    /\ LET r == h[p]
             got == User(users, r.ctxDone, r.email)
             cmp == CompareHashAndPassword(got.user.pass_hash, r.password)
         IN
         h' = [h EXCEPT ![p] =
                 IF got.err # NoErr
                 THEN Failed(r, <<"storage.User">>,
                             IF Is(got.err, "storage.ErrUserNotFound")
                             THEN "WARN" ELSE "ERROR",
                             LoginUserErr(got.err),
                             LoginStatus(LoginUserErr(got.err)))
                 ELSE IF cmp # NoErr
                 THEN Failed([r EXCEPT !.user = got.user],
                             <<"storage.User", "bcrypt.CompareHashAndPassword">>,
                             "ERROR",
                             LoginCompareErr(cmp),
                             LoginStatus(LoginCompareErr(cmp)))
                 ELSE [r EXCEPT !.pc = "App",
                                !.user = got.user,
                                !.called = r.called \o
                                    <<"storage.User",
                                      "bcrypt.CompareHashAndPassword">>]]
    /\ UNCHANGED <<users, apps, tokenTTL, registered>>

\* Auth.Login: the application lookup and the token, and server.Login's
\* answer.  Signing with HMAC-SHA-256 accepts every key: it cannot fail.
LoginApp(p) ==
    /\ h[p].pc = "App"
    /\ \E now \in Instants :
         LET r == h[p]
             got == App(apps, r.ctxDone, r.app_id)
         IN
         h' = [h EXCEPT ![p] =
                 IF got.err # NoErr
                 THEN Failed(r, <<"storage.App">>,
                             IF Is(got.err, "storage.ErrAppNotFound")
                             THEN "WARN" ELSE "ERROR",
                             LoginAppErr(got.err),
                             LoginStatus(LoginAppErr(got.err)))
                 ELSE [r EXCEPT !.pc = "done",
                                !.called = r.called \o
                                    <<"storage.App", "jwt.NewToken">>,
                                !.log = Append(r.log, "INFO"),
                                !.now = now,
                                !.token = NewToken(r.user, got.app, tokenTTL, now),
                                !.status = LoginStatus(NoErr)]]
    /\ UNCHANGED <<users, apps, tokenTTL, registered>>

\* server.IsAdmin up to the core's store call: validation only.
ServerIsAdmin(p) ==
    /\ h[p].pc = "idle"
    /\ \E userID \in UserIDs :
         LET st == validateIsAdminRequest(userID) IN
         h' = [h EXCEPT ![p] =
                 IF st # OK
                 THEN Rejected("IsAdmin", "", "", 0, userID, st)
                 ELSE [Accepted("IsAdmin", "", "", 0, userID, "IsAdmin")
                         EXCEPT !.called = <<"auth.IsAdmin">>]]
    /\ UNCHANGED <<users, apps, tokenTTL, registered>>

\* Auth.IsAdmin from the store call on, and server.IsAdmin's answer.
IsAdminQuery(p) ==
    /\ h[p].pc = "IsAdmin"
    /\ LET r == h[p]
             got == StorageIsAdmin(users, r.ctxDone, r.user_id)
         IN
         h' = [h EXCEPT ![p] =
                 IF got.err # NoErr
                 THEN Failed(r, <<"storage.IsAdmin">>,
                             IF Is(got.err, "storage.ErrAppNotFound")
                             THEN "WARN" ELSE "ERROR",
                             IsAdminErr(got.err),
                             IsAdminStatus(IsAdminErr(got.err)))
                 ELSE [r EXCEPT !.pc = "done",
                                !.called = r.called \o <<"storage.IsAdmin">>,
                                !.log = Append(r.log, "INFO"),
                                !.isAdmin = got.isAdmin,
                                !.status = IsAdminStatus(NoErr)]]
    /\ UNCHANGED <<users, apps, tokenTTL, registered>>

\* The caller cancels the request, or its deadline passes, before the
\* handler's next store call.
Cancel(p) ==
    /\ h[p].pc \in {"SaveUser", "User", "App", "IsAdmin"}
    /\ ~h[p].ctxDone
    /\ h' = [h EXCEPT ![p].ctxDone = TRUE]
    /\ UNCHANGED <<users, apps, tokenTTL, registered>>

\* The response has been sent: the goroutine ends.
Return(p) ==
    /\ h[p].pc = "done"
    /\ h' = [h EXCEPT ![p] = Idle]
    /\ UNCHANGED <<users, apps, tokenTTL, registered>>

Next ==
    \E p \in Handlers :
        \/ ServerRegister(p)
        \/ RegisterSaveUser(p)
        \/ ServerLogin(p)
        \/ LoginUser(p)
        \/ LoginApp(p)
        \/ ServerIsAdmin(p)
        \/ IsAdminQuery(p)
        \/ Cancel(p)
        \/ Return(p)

Spec == Init /\ [][Next]_vars

(* ------------------------------ claims --------------------------------- *)

\* The caller's context was cancelled at one of the handler's store calls.
Cancelled(r) == Is(r.err, "context.Canceled")

\* The answers a successful Register gave for this email.
RegisteredAs(email) == {rec \in registered : rec.email = email}

\* The error value and the status of a failed login.
InvalidCredentials == Wrap("auth.Auth.Login", Sentinel("auth.ErrInvalidCredentials"))
InvalidCredentialsStatus == Status("InvalidArgument", "invalid credentials")

\* Handler p finished a Login that returned a token.
LoggedIn(p) == h[p].op = "Login" /\ h[p].pc = "done" /\ h[p].status = OK

\* C1, first step: a Login for an email and password that Register answered
\* with id u passes the user lookup and the password comparison, holding the
\* row with id u, unless the caller's context is cancelled.
C1User(p) ==
    (/\ h[p].pc = "User"
     /\ h'[p].pc # h[p].pc
     /\ ~Cancelled(h'[p])
     /\ \E rec \in RegisteredAs(h[p].email) : rec.password = h[p].password)
    => /\ h'[p].pc = "App"
       /\ \E rec \in RegisteredAs(h[p].email) :
            h'[p].user.id = rec.id /\ h'[p].user.email = rec.email

\* C1, second step: with an existing application id the Login then succeeds
\* with a token whose claims are the registered email, the id Register
\* returned and the requested application id.
C1App(p) ==
    (/\ h[p].pc = "App"
     /\ h'[p].pc # h[p].pc
     /\ ~Cancelled(h'[p])
     /\ h[p].app_id \in DOMAIN apps)
    => /\ h'[p].pc = "done"
       /\ h'[p].status = OK
       /\ h'[p].err = NoErr
       /\ \E rec \in RegisteredAs(h[p].email) :
            /\ rec.password = h[p].password
            /\ h'[p].token.email = rec.email
            /\ h'[p].token.user_id = rec.id
            /\ h'[p].token.app_id = h[p].app_id

\* C1: for every non-empty email and password and every existing application
\* id, once Register(email, password) has succeeded with id u, a Login with
\* the same credentials succeeds and its token carries email, user_id = u and
\* app_id = the requested id (the caller's context staying live).
C1_RegisterThenLogin ==
    [][\A p \in Handlers : C1User(p) /\ C1App(p)]_vars

\* A Login for a registered account has returned its token.
C1_Witness ==
    \E p \in Handlers :
        /\ LoggedIn(p)
        /\ \E rec \in RegisteredAs(h[p].email) :
             rec.password = h[p].password /\ h[p].token.user_id = rec.id

\* C2: a Register whose email is already stored fails with UserExists,
\* answered as already-exists "user already exists", returns no user id and
\* leaves the user rows as they were (the caller's context staying live).
C2_DuplicateRegister ==
    [][\A p \in Handlers :
         (/\ h[p].pc = "SaveUser"
          /\ h'[p].pc # h[p].pc
          /\ ~Cancelled(h'[p])
          /\ RowsByEmail(users, h[p].email) # {})
         => /\ h'[p].pc = "done"
            /\ Is(h'[p].err, "auth.ErrUserExists")
            /\ h'[p].status = Status("AlreadyExists", "user already exists")
            /\ h'[p].userID = 0
            /\ users' = users
            /\ Len(users') = Len(users)]_vars

\* A Register has been refused as a duplicate while the email holds one row.
C2_Witness ==
    \E p \in Handlers :
        /\ h[p].op = "Register" /\ h[p].pc = "done"
        /\ h[p].status.code = "AlreadyExists"
        /\ Cardinality(RowsByEmail(users, h[p].email)) = 1

\* C3: a Login with a registered email and a wrong password and a Login with
\* an unregistered email fail alike: the same InvalidCredentials error value,
\* the same status and no token, so the answer does not tell whether the
\* account exists (the caller's context staying live).
C3_SameFailure ==
    [][\A p \in Handlers :
         (/\ h[p].pc = "User"
          /\ h'[p].pc # h[p].pc
          /\ ~Cancelled(h'[p])
          /\ \/ RegisteredAs(h[p].email) = {}
             \/ \E rec \in RegisteredAs(h[p].email) : rec.password # h[p].password)
         => /\ h'[p].pc = "done"
            /\ h'[p].err = InvalidCredentials
            /\ h'[p].status = InvalidCredentialsStatus
            /\ h'[p].token = NoToken]_vars

\* One Login failed on an unknown email while another failed on a wrong
\* password, and the two answers are equal.
C3_Witness ==
    \E p, q \in Handlers :
        /\ h[p].op = "Login" /\ h[p].pc = "done"
        /\ h[q].op = "Login" /\ h[q].pc = "done"
        /\ h[p].called = <<"auth.Login", "storage.User">>
        /\ h[q].called = <<"auth.Login", "storage.User",
                           "bcrypt.CompareHashAndPassword">>
        /\ ~Cancelled(h[p])
        /\ h[p].status = InvalidCredentialsStatus
        /\ h[q].status = h[p].status /\ h[q].err = h[p].err

C5_UnknownUserIsInvalidAppID ==
    [][\A p \in Handlers :
         (/\ h[p].pc = "IsAdmin"
          /\ h'[p].pc # h[p].pc
          /\ ~Cancelled(h'[p])
          /\ RowsByID(users, h[p].user_id) = {})
         => Is(h'[p].err, "auth.ErrInvalidAppID")]_vars

\* C6: the remote IsAdmin, called with a positive user id that has no row,
\* answers not-found "user not found" and not internal (the caller's
\* context staying live).
C6_UnknownUserIsNotFound ==
    [][\A p \in Handlers :
         (/\ h[p].pc = "IsAdmin"
          /\ h'[p].pc # h[p].pc
          /\ ~Cancelled(h'[p])
          /\ h[p].user_id > 0
          /\ RowsByID(users, h[p].user_id) = {})
         => /\ h'[p].status = Status("NotFound", "user not found")
            /\ h'[p].status.code # "Internal"]_vars

\* C7: the token of a successful Login carries exp = the issuance instant
\* plus the configured lifetime, in whole Unix seconds, and that expiry is
\* strictly later than the issuance instant, whatever lifetime is configured.
C7_ExpiryAfterIssuance ==
    \A p \in Handlers :
        LoggedIn(p) =>
            /\ h[p].token.exp = Unix(h[p].now + tokenTTL)
            /\ h[p].token.exp * TicksPerSec > h[p].now

\* C8: the token of a successful Login is signed with the secret of the
\* application its app_id claim names, that application is the requested
\* one, and no other application's secret verifies the token.
C8_SignedForItsApp ==
    \A p \in Handlers :
        LoggedIn(p) =>
            /\ h[p].token.app_id = h[p].app_id
            /\ h[p].token.app_id \in DOMAIN apps
            /\ Verifies(h[p].token, apps[h[p].token.app_id].secret)
            /\ \A a \in DOMAIN apps :
                 a # h[p].token.app_id => ~Verifies(h[p].token, apps[a].secret)

\* Tokens for two different applications are out at the same time, each
\* under its own secret.
C8_Witness ==
    \E p, q \in Handlers :
        /\ LoggedIn(p) /\ LoggedIn(q)
        /\ h[p].app_id # h[q].app_id
        /\ h[p].token.key = apps[h[p].app_id].secret
        /\ h[q].token.key = apps[h[q].app_id].secret

\* The request of handler r was turned away by the gateway alone.
RejectedWith(r, msg) ==
    /\ r.pc = "done"
    /\ r.status = Status("InvalidArgument", msg)
    /\ r.called = <<>>

\* C9: a Register or Login with a missing field gets the invalid-argument
\* error of the first missing field, email, then password, then (Login)
\* application id 0, and neither the core nor the store is called.
C9_ValidationFirst ==
    \A p \in Handlers :
        LET r == h[p] IN
        /\ (r.op \in {"Register", "Login"} /\ r.email = "")
               => RejectedWith(r, "email is required")
        /\ (r.op \in {"Register", "Login"} /\ r.email # "" /\ r.password = "")
               => RejectedWith(r, "password is required")
        /\ (r.op = "Login" /\ r.email # "" /\ r.password # "" /\ r.app_id = 0)
               => RejectedWith(r, "app_id is required")

\* A request with neither email nor password was answered "email is
\* required" while a Login with application id 0 for an unregistered email
\* was answered "app_id is required".
C9_Witness ==
    \E p, q \in Handlers :
        /\ h[p].op \in {"Register", "Login"} /\ h[p].pc = "done"
        /\ h[p].email = "" /\ h[p].password = ""
        /\ h[p].status.msg = "email is required"
        /\ h[q].op = "Login" /\ h[q].pc = "done"
        /\ h[q].email # "" /\ h[q].password # "" /\ h[q].app_id = 0
        /\ RegisteredAs(h[q].email) = {}
        /\ h[q].status.msg = "app_id is required"

\* The calls handler r made so far.
Calls(r) == {r.called[i] : i \in 1..Len(r.called)}

\* C10: no Login reaches the comparison of the stored hash with an empty
\* password, nor the user lookup that precedes it.
C10_NoEmptyPasswordCompared ==
    \A p \in Handlers :
        (\/ "bcrypt.CompareHashAndPassword" \in Calls(h[p])
         \/ h[p].pc = "User")
        => h[p].password # ""

\* A Login compared its password with the stored hash.
C10_Witness ==
    \E p \in Handlers :
        /\ h[p].op = "Login"
        /\ "bcrypt.CompareHashAndPassword" \in Calls(h[p])
        /\ h[p].user.pass_hash # NoHash

\* The ids the successful Register calls returned.
RegisteredIDs == {rec.id : rec \in registered}

\* C11: IsAdmin for the id of a user that Register created (nothing else
\* writes the admin flag) returns false without error, whatever Register,
\* Login and IsAdmin calls ran before or run beside it (the caller's context
\* being live).
C11_FreshUserIsNotAdmin ==
    [][\A p \in Handlers :
         (/\ h[p].pc = "IsAdmin"
          /\ h'[p].pc # h[p].pc
          /\ ~h[p].ctxDone
          /\ h[p].user_id \in RegisteredIDs)
         => /\ h'[p].pc = "done"
            /\ h'[p].err = NoErr
            /\ h'[p].status = OK
            /\ h'[p].isAdmin = FALSE]_vars

\* IsAdmin has answered for the second registered user while a Login is out.
C11_Witness ==
    \E p, q \in Handlers :
        /\ h[p].op = "IsAdmin" /\ h[p].pc = "done"
        /\ h[p].user_id \in RegisteredIDs /\ h[p].user_id = 2
        /\ h[p].status = OK /\ h[p].isAdmin = FALSE
        /\ h[p].called = <<"auth.IsAdmin", "storage.IsAdmin">>
        /\ LoggedIn(q)

\* Failures of the store, of hashing and of signing, by their sentinels.
InfraErrors ==
    {"context.Canceled", "context.DeadlineExceeded", "sql.ErrConnDone",
     "sqlite3.ErrBusy", "bcrypt.ErrPasswordTooLong", "jwt.ErrInvalidKeyType"}

InternalStatus == Status("Internal", "internal error")

\* The status that the kind of a core error calls for.
StatusOfKind(err) ==
    IF err = NoErr THEN OK
    ELSE IF Is(err, "auth.ErrUserExists")
    THEN Status("AlreadyExists", "user already exists")
    ELSE IF Is(err, "auth.ErrInvalidCredentials")
    THEN Status("InvalidArgument", "invalid credentials")
    ELSE IF Is(err, "auth.ErrInvalidAppID")
    THEN Status("InvalidArgument", "invalid app ID")
    ELSE InternalStatus

RegisterSucceeds(p) ==
    /\ h[p].op = "Register" /\ h[p].pc = "SaveUser"
    /\ h'[p].pc = "done" /\ h'[p].err = NoErr /\ h'[p].status = OK

\* C13: only a successful Register changes the store, and it adds exactly one
\* user row; a Register that returns an error and every Login and IsAdmin
\* step leave the user rows and the application rows as they were.
C13_OnlySuccessfulRegisterWrites ==
    [][/\ apps' = apps
       /\ users' # users =>
            \E p \in Handlers :
                /\ RegisterSucceeds(p)
                /\ Len(users') = Len(users) + 1
                /\ SubSeq(users', 1, Len(users)) = users
                /\ users'[Len(users')].email = h[p].email
       /\ \A p \in Handlers :
            (h'[p].pc # h[p].pc /\ ~RegisterSucceeds(p)) => users' = users]_vars

\* One Register has written its row and another has failed on a cancelled
\* context, and the table holds the one row.
C13_Witness ==
    \E p, q \in Handlers :
        /\ h[p].op = "Register" /\ h[p].pc = "done" /\ h[p].status = OK
        /\ h[q].op = "Register" /\ h[q].pc = "done" /\ Cancelled(h[q])
        /\ h[q].email # h[p].email
        /\ Len(users) = 1

\* C14: an operation whose context is cancelled aborts at its next step, be
\* it the hashing or a store call, and returns an error; a Register cancelled
\* before the store write creates no user row.
C14_CancelAbortsNextStep ==
    [][\A p \in Handlers :
         /\ (/\ h[p].pc \in {"SaveUser", "User", "App", "IsAdmin"}
             /\ h[p].ctxDone
             /\ h'[p].pc # h[p].pc)
            => /\ h'[p].pc = "done"
               /\ h'[p].err # NoErr
               /\ h'[p].status # OK
               /\ users' = users
         /\ (/\ h[p].pc = "idle"
             /\ h'[p].op = "Register"
             /\ h'[p].ctxDone)
            => /\ h'[p].pc = "done"
               /\ h'[p].status # OK
               /\ "bcrypt.GenerateFromPassword" \notin Calls(h'[p])]_vars

DomainErrors ==
    {"auth.ErrUserExists", "auth.ErrInvalidCredentials", "auth.ErrInvalidAppID"}

\* The severities of the log events handler r emitted.
Levels(r) == {r.log[i] : i \in 1..Len(r.log)}

\* C15: no operation emits an error-severity log event when its outcome is a
\* domain error (UserExists, InvalidCredentials, InvalidAppID); such events
\* are emitted only for infrastructure failures.
C15_NoErrorLogForDomainErrors ==
    \A p \in Handlers :
        /\ h[p].err.is \in DomainErrors => "ERROR" \notin Levels(h[p])
        /\ "ERROR" \in Levels(h[p]) =>
               h[p].err # NoErr /\ h[p].err.is \notin DomainErrors

\* The calls of a complete Login, in the order of the code.
LoginCalls ==
    <<"auth.Login", "storage.User", "bcrypt.CompareHashAndPassword",
      "storage.App", "jwt.NewToken">>

IsPrefix(a, b) == Len(a) <= Len(b) /\ SubSeq(b, 1, Len(a)) = a

\* Handler r holds the row of a registered user whose password is the
\* request's.
Verified(r) ==
    \E rec \in RegisteredAs(r.email) :
        rec.password = r.password /\ r.user.id = rec.id /\ r.user.email = r.email

\* C16: Login runs user lookup, password verification, application lookup
\* and token issuance in this order and stops at the first failure: the
\* application store is consulted only once the password is verified, and a
\* token is returned only when the user was found, the password matched and
\* the application was resolved.
C16_LoginOrder ==
    \A p \in Handlers :
        LET r == h[p] IN
        r.op = "Login" =>
            /\ IsPrefix(r.called, LoginCalls)
            /\ (r.pc = "App" \/ "storage.App" \in Calls(r)) => Verified(r)
            /\ (r.pc = "done" /\ r.err # NoErr) =>
                   /\ Len(r.called) < Len(LoginCalls)
                   /\ r.token = NoToken
                   /\ r.status # OK
            /\ (r.token # NoToken \/ (r.pc = "done" /\ r.status = OK)) =>
                   /\ r.called = LoginCalls
                   /\ r.err = NoErr
                   /\ Verified(r)
                   /\ r.app_id \in DOMAIN apps
                   /\ r.token.app_id = r.app_id

\* One Login has run to its token while another stopped at the password
\* comparison, before the application lookup.
C16_Witness ==
    \E p, q \in Handlers :
        /\ LoggedIn(p) /\ h[p].called = LoginCalls
        /\ h[q].op = "Login" /\ h[q].pc = "done"
        /\ h[q].called = SubSeq(LoginCalls, 1, 3)
        /\ h[q].user # NoUser
        /\ h[q].err = InvalidCredentials

\* Handler r finished a Register whose store call ran with a live context.
Registering(r) ==
    /\ r.op = "Register" /\ r.pc = "done"
    /\ "storage.SaveUser" \in Calls(r)
    /\ ~Cancelled(r)

\* C17: of the Register calls for one email, run in any interleaving, exactly
\* one succeeds and the others fail with UserExists; any two successful
\* Register calls return distinct ids greater than 0; the store never holds
\* two rows with the same email or the same id.
C17_ConcurrentRegister ==
    /\ \A i, j \in 1..Len(users) :
         i # j => users[i].email # users[j].email /\ users[i].id # users[j].id
    /\ \A i \in 1..Len(users) : users[i].id > 0
    /\ \A r1, r2 \in registered :
         r1 # r2 => r1.id # r2.id /\ r1.email # r2.email
    /\ \A rec \in registered :
         rec.id > 0 /\ \E i \in RowsByID(users, rec.id) : users[i].email = rec.email
    /\ \A p \in Handlers :
         Registering(h[p]) =>
             /\ Cardinality(RegisteredAs(h[p].email)) = 1
             /\ \/ h[p].status = OK /\ h[p].userID > 0
                \/ /\ Is(h[p].err, "auth.ErrUserExists")
                   /\ h[p].status.code = "AlreadyExists"
                   /\ h[p].userID = 0
    /\ \A p, q \in Handlers :
         (p # q /\ Registering(h[p]) /\ Registering(h[q])) =>
             /\ (h[p].status = OK /\ h[q].status = OK) => h[p].userID # h[q].userID
             /\ h[p].email = h[q].email => ~(h[p].status = OK /\ h[q].status = OK)

\* Two Register calls for one email have both finished, one with the new id
\* and one with UserExists, beside an earlier user with another id.
C17_Witness ==
    \E p, q \in Handlers :
        /\ Registering(h[p]) /\ Registering(h[q])
        /\ h[p].email = h[q].email
        /\ h[p].status = OK /\ h[p].userID = 2
        /\ h[q].status.code = "AlreadyExists"
        /\ Len(users) = 2

====
